---- MODULE Spec2Model ----
(***************************************************************************)
(* MixHub backend (server.js): the catalog cache-or-fetch flow             *)
(* (fetchYouTubeChannelVideos), the substring search over it               *)
(* (GET /api/search) and the conversion gateway (downloadFromGiftedTech)   *)
(* with the two handlers that call it (GET /api/download/:videoId and      *)
(* GET /api/stream/:videoId).                                              *)
(*                                                                         *)
(* Every request is an asynchronous task on one event loop: it runs        *)
(* without interruption between two awaits, and the tasks interleave at    *)
(* the awaits.  One action below is one such uninterrupted stretch: the    *)
(* outcome of the awaited call together with the synchronous code that     *)
(* follows it up to the next await or the response.                        *)
(***************************************************************************)
EXTENDS Integers, Sequences, FiniteSets, TLC

\* ------------------------------------------------------------ bounds
\* Concurrent requests in one behaviour.
NumReq == 2
\* Longest list the External Catalog Source answers with.
MaxItems == 2
\* Periods of the time to live the clock runs through in one behaviour.
MaxPeriods == 1
\* Longest search query, in characters.
NumClients == 3
RandomGrain == 100
WaveformLength == 100
MaxQueryLen == 2
MaxCalls == 4

\* ------------------------------------------------- program constants
\* redis.setex(cacheKey, 3600, ...): the catalog's time to live, seconds.
TTL == 3600

Reqs == 1..NumReq

\* The clock stops here.
Horizon == MaxPeriods * TTL

\* --------------------------------------------------------- the catalog
\* "Absent" is JavaScript's undefined: a property the upstream item lacks.
Absent == "undefined"

\* Items of the External Catalog Source (YouTube search results), as the
\* code reads them: item.id.videoId, item.snippet.title, .description,
\* .thumbnails.high?.url, .thumbnails.default.url, .publishedAt,
\* .channelTitle.  Texts are sequences of characters.
RawV1 ==
  [videoId |-> "v1", title |-> <<"B", "b", "o", "y">>, description |-> <<"m", "i", "x">>,
   high |-> "v1/hq.jpg", default |-> "v1/default.jpg",
   publishedAt |-> "2024-01-01", channelTitle |-> "DJ BBOY"]
RawV2 ==
  [videoId |-> "v2", title |-> <<"M", "i", "x">>, description |-> <<"b", "B", "O", "Y">>,
   high |-> Absent, default |-> "v2/default.jpg",
   publishedAt |-> "2024-02-01", channelTitle |-> "DJ BBOY"]
RawV3 ==
  [videoId |-> "v3", title |-> <<"O", "y">>, description |-> <<>>,
   high |-> "v3/hq.jpg", default |-> Absent,
   publishedAt |-> "2024-03-01", channelTitle |-> "DJ BBOY"]
\* An item with no thumbnail variant at all: thumbnails.default.url throws.
RawBad ==
  [videoId |-> "v4", title |-> <<"x">>, description |-> <<"y">>,
   high |-> Absent, default |-> Absent,
   publishedAt |-> "2024-04-01", channelTitle |-> "DJ BBOY"]

GoodItems == {RawV1, RawV2}

RECURSIVE SeqsUpTo(_, _)
SeqsUpTo(S, n) ==
  IF n = 0 THEN {<<>>}
  ELSE LET shorter == SeqsUpTo(S, n - 1)
       IN  shorter \cup {Append(s, x) : s \in {t \in shorter : Len(t) = n - 1}, x \in S}

\* The lists of at most n items of S in which no item comes twice (a video
\* is listed once in its channel).
Listings(S, n) ==
  {l \in SeqsUpTo(S, n) : \A i, j \in 1..Len(l) : i # j => l[i] # l[j]}

\* What one call of the External Catalog Source can answer: a failure
\* (network error, non-2xx status: axios.get rejects) or a list of items.
CatalogResponses ==
  {[ok |-> FALSE, items |-> <<>>], [ok |-> TRUE, items |-> <<RawV1, RawBad>>]}
    \cup {[ok |-> TRUE, items |-> l] : l \in Listings(GoodItems, MaxItems)}

\* item => ({ videoId, title, description, thumbnail, publishedAt, channelTitle })
MapItem(item) ==
  [videoId |-> item.videoId, title |-> item.title, description |-> item.description,
   thumbnail |-> IF item.high # Absent THEN item.high ELSE item.default,
   publishedAt |-> item.publishedAt, channelTitle |-> item.channelTitle]

\* thumbnails.high?.url || thumbnails.default.url raises a TypeError when the
\* item has neither variant.
MapThrows(items) ==
  \E i \in 1..Len(items) : items[i].high = Absent /\ items[i].default = Absent

\* Mutant: the mapped list comes out in reverse order.
MapItemsReversed(items) ==
  [i \in 1..Len(items) |-> MapItem(items[Len(items) + 1 - i])]

MapItems(items) == [i \in 1..Len(items) |-> MapItem(items[i])]

\* JSON.stringify / JSON.parse of the mapped list.  Every field is a string
\* or a list of characters, which JSON round-trips; the text is never the
\* empty string ("[]" for the empty list).
JSONStringify(videos) == [json |-> videos]
JSONParse(text) == text.json

\* if (cached): a string is truthy unless it is null or empty; the text of
\* a list, "[]" included, is not empty.
\* Mutant: the text of the empty list counts as a miss.
TruthyNonEmptyList(reply) == reply.some /\ Len(reply.text.json) > 0

Truthy(reply) == reply.some

\* ---------------------------------------------------------- the search
\* String.prototype.toLowerCase, on the letters the model's texts use.
LowerOf ==
  [c \in {"B", "O", "Y", "M"} |->
     CASE c = "B" -> "b" [] c = "O" -> "o" [] c = "Y" -> "y" [] c = "M" -> "m"]

LowerChar(c) == IF c \in DOMAIN LowerOf THEN LowerOf[c] ELSE c

ToLowerCase(s) == [i \in 1..Len(s) |-> LowerChar(s[i])]

\* String.prototype.includes
Includes(s, sub) ==
  \E i \in 0..(Len(s) - Len(sub)) : SubSeq(s, i + 1, i + Len(sub)) = sub

\* Mutant: the query is compared as typed, not lowered.
VideoMatchesRawQuery(video, q) ==
  \/ Includes(ToLowerCase(video.title), q)
  \/ Includes(ToLowerCase(video.description), q)

\* video.title.toLowerCase().includes(q.toLowerCase()) ||
\* video.description.toLowerCase().includes(q.toLowerCase())
VideoMatches(video, q) ==
  \/ Includes(ToLowerCase(video.title), ToLowerCase(q))
  \/ Includes(ToLowerCase(video.description), ToLowerCase(q))

\* videos.filter(video => ...)
FilterVideos(list, q) == SelectSeq(list, LAMBDA v : VideoMatches(v, q))

\* ------------------------------------------------- the conversion gateway
\* `https://www.youtube.com/watch?v=${videoId}`, then encodeURIComponent.
WatchUrl(videoId) == [page |-> "https://www.youtube.com/watch", v |-> videoId]

ApiCall(endpoint, videoId, qualityParam, formatParam) ==
  [endpoint |-> endpoint, url |-> WatchUrl(videoId), quality |-> qualityParam,
   format |-> formatParam, timeout |-> 30000]

\* Mutant: every audio request goes to the generic audio endpoint.
BuildApiUrlAudioGeneric(videoId, format, quality) ==
  CASE format = "video" ->
         ApiCall("ytv", videoId, IF quality # "720p" THEN quality ELSE Absent, Absent)
    [] format = "audio" -> ApiCall("ytaudio", videoId, Absent, quality)
    [] OTHER -> ApiCall("dlmp3", videoId, Absent, Absent)

\* switch (format) { case 'video': ... case 'audio': ... default: ... }
BuildApiUrl(videoId, format, quality) ==
  CASE format = "video" ->
         ApiCall("ytv", videoId, IF quality # "720p" THEN quality ELSE Absent, Absent)
    [] format = "audio" ->
         IF quality = "mp3"
         THEN ApiCall("dlmp3", videoId, Absent, Absent)
         ELSE ApiCall("ytaudio", videoId, Absent, quality)
    [] OTHER -> ApiCall("dlmp3", videoId, Absent, Absent)

\* x || fallback, for a property that may be absent.
OrElse(x, fallback) == IF x # Absent THEN x ELSE fallback

NoResult ==
  [download_url |-> Absent, title |-> Absent, thumbnail |-> Absent,
   duration |-> Absent, quality |-> Absent]

\* What the External Conversion Service can answer to one call: axios.get
\* rejects (the 30 s timeout, a non-2xx status), or response.data arrives
\* with its success flag and, perhaps, its result object.
ConvResponses ==
  {[arrived |-> FALSE, message |-> "timeout of 30000ms exceeded",
    success |-> FALSE, hasResult |-> FALSE, result |-> NoResult],
   [arrived |-> FALSE, message |-> "Request failed with status code 500",
    success |-> FALSE, hasResult |-> FALSE, result |-> NoResult],
   [arrived |-> TRUE, message |-> Absent,
    success |-> FALSE, hasResult |-> FALSE, result |-> NoResult],
   [arrived |-> TRUE, message |-> Absent,
    success |-> TRUE, hasResult |-> FALSE, result |-> NoResult],
   [arrived |-> TRUE, message |-> Absent,
    success |-> TRUE, hasResult |-> TRUE, result |-> NoResult],
   [arrived |-> TRUE, message |-> Absent,
    success |-> TRUE, hasResult |-> TRUE,
    result |-> [NoResult EXCEPT !.download_url = "https://x/y.mp3"]],
   [arrived |-> TRUE, message |-> Absent,
    success |-> TRUE, hasResult |-> TRUE,
    result |-> [download_url |-> "https://x/z.mp4", title |-> "Bboy mix",
                thumbnail |-> "t.jpg", duration |-> "3:20", quality |-> "128kbps"]]}

NoDownload ==
  [success |-> FALSE, downloadUrl |-> Absent, title |-> Absent, thumbnail |-> Absent,
   duration |-> Absent, quality |-> Absent, format |-> Absent, error |-> Absent,
   fallback |-> FALSE]

\* Mutant: the result reports the default format, not the requested one.
DownloadResultDefaultFormat(format, quality, reply) ==
  IF reply.arrived /\ reply.success /\ reply.hasResult
  THEN [NoDownload EXCEPT
          !.success = TRUE,
          !.downloadUrl = reply.result.download_url,
          !.title = OrElse(reply.result.title, "Unknown Title"),
          !.thumbnail = OrElse(reply.result.thumbnail, ""),
          !.duration = OrElse(reply.result.duration, "0:00"),
          !.quality = OrElse(reply.result.quality, quality),
          !.format = "mp3"]
  ELSE [NoDownload EXCEPT
          !.error = IF reply.arrived THEN "GiftedTech API returned error" ELSE reply.message,
          !.fallback = TRUE]

\* if (response.data.success && response.data.result) return { success: true, ... };
\* throw new Error('GiftedTech API returned error');
\* catch (error) return { success: false, error: error.message, fallback: true }
DownloadResult(format, quality, reply) ==
  IF reply.arrived /\ reply.success /\ reply.hasResult
  THEN [NoDownload EXCEPT
          !.success = TRUE,
          !.downloadUrl = reply.result.download_url,
          !.title = OrElse(reply.result.title, "Unknown Title"),
          !.thumbnail = OrElse(reply.result.thumbnail, ""),
          !.duration = OrElse(reply.result.duration, "0:00"),
          !.quality = OrElse(reply.result.quality, quality),
          !.format = format]
  ELSE [NoDownload EXCEPT
          !.error = IF reply.arrived THEN "GiftedTech API returned error" ELSE reply.message,
          !.fallback = TRUE]

\* ----------------------------------------------------------- the cache
NoEntry == [has |-> FALSE, value |-> JSONStringify(<<>>), setAt |-> 0, ttl |-> 0]

\* Mutant: the key is still served at the instant its time to live elapses.
LiveInclusive(entry, t) == entry.has /\ t <= entry.setAt + entry.ttl

\* The key is live while its time to live has not elapsed.
Live(entry, t) == entry.has /\ t < entry.setAt + entry.ttl

\* redis.get(cacheKey): the stored text of a live key, null otherwise.  The
\* unconfigured fallback is get: async () => null.
RedisGet(configured, entry, t) ==
  IF configured /\ Live(entry, t)
  THEN [some |-> TRUE, text |-> entry.value]
  ELSE [some |-> FALSE, text |-> JSONStringify(<<>>)]

\* Mutant: the new list is appended to the stored one.
RedisSetexMerge(configured, entry, ttl, text, t) ==
  IF configured
  THEN [has |-> TRUE, value |-> [json |-> entry.value.json \o text.json],
        setAt |-> t, ttl |-> ttl]
  ELSE entry

\* Mutant: the unconfigured fallback keeps what it is given.
RedisSetexFallbackStores(configured, entry, ttl, text, t) ==
  [has |-> TRUE, value |-> text, setAt |-> t, ttl |-> ttl]

\* redis.setex(cacheKey, ttl, text): replaces the key's value and expiry.
\* The unconfigured fallback is setex: async () => true.
RedisSetex(configured, entry, ttl, text, t) ==
  IF configured
  THEN [has |-> TRUE, value |-> text, setAt |-> t, ttl |-> ttl]
  ELSE entry

VARIABLES
  now,              \* the clock, seconds
  redisConfigured,  \* process.env.REDIS_URL is set: a Redis client, else the no-op object
  cache,            \* the entry under 'youtube_channel_videos'
  req,              \* each request: its route and parameters
  pc,               \* each request's position
  videos,           \* fetchYouTubeChannelVideos: const videos (the mapped list)
  result,           \* what fetchYouTubeChannelVideos returned
  raised,           \* fetchYouTubeChannelVideos let an exception escape to its caller
  outcome,          \* the path fetchYouTubeChannelVideos took for the request
  expiredRead,      \* the store held an expired entry when the request's redis.get ran
  fetched,          \* the External Catalog Source's answer to the request
  catalogCalls,     \* calls of the External Catalog Source, per request
  lastWriter,       \* the request whose redis.setex the store executed last
  convCall,         \* the request's outbound call of the External Conversion Service
  convCalls,        \* outbound conversion calls issued so far
  convReply,        \* the External Conversion Service's answer to the request
  downloadResult,   \* what downloadFromGiftedTech returned
  downloadCount,    \* Mix.downloadCount, per videoId
  response,         \* what the handler sent to the client
  nodeEnv,          \* process.env.NODE_ENV
  mixes,            \* the Mix documents saved by POST /api/upload
  clientOptions,    \* the browser client: what getDownloadOptions returned
  connected,        \* socket.io: the sockets that are connected
  joined,           \* socket.io: the rooms each socket has joined
  lastEmit,         \* the last 'audio-progress' message the server handled
  recipients,       \* the sockets to which it emitted 'progress-update'
  users,            \* the User documents: each user's preferences
  isPlaying,        \* the browser client: player.isPlaying
  paused,           \* the audio element: its paused attribute
  ended,            \* the audio element: playback has ended
  canPlay,          \* the audio element: readyState is HAVE_FUTURE_DATA or more
  pendingPlay,      \* the audio element: promises in its list of pending play promises
  taskQueue,        \* the page's event loop: the element's tasks that wait their turn
  calls             \* calls of play(), pause() and togglePlay() made so far

fetchVars == <<videos, result, raised, outcome, expiredRead, fetched, catalogCalls>>
convVars == <<convCall, convCalls, convReply, downloadResult, downloadCount>>
socketVars == <<connected, joined, lastEmit, recipients>>
playerVars == <<isPlaying, paused, ended, canPlay, pendingPlay, taskQueue, calls>>
moreVars == <<socketVars, users, playerVars>>
restVars == <<nodeEnv, mixes, clientOptions, moreVars>>
httpVars == <<now, redisConfigured, cache, req, pc, lastWriter, response, nodeEnv, mixes,
              clientOptions>>

vars == <<now, redisConfigured, cache, req, pc, videos, result, raised, outcome,
          expiredRead, fetched, catalogCalls, lastWriter, convCall, convCalls,
          convReply, downloadResult, downloadCount, response, nodeEnv, mixes,
          clientOptions, moreVars>>

NoFetch == [ok |-> FALSE, items |-> <<>>]
NoCall == [endpoint |-> "none", url |-> WatchUrl(""), quality |-> Absent,
           format |-> Absent, timeout |-> 0]
NoReply == [arrived |-> FALSE, message |-> Absent, success |-> FALSE,
            hasResult |-> FALSE, result |-> NoResult]
NoResponse == [status |-> 0, type |-> "none"]
NoOptions == [video |-> <<>>, audio |-> <<>>]

\* The browser clients that may open a socket, and the rooms they may name.
Clients == 1..NumClients
RoomNames == {"global", "party"}
NoEmit == [from |-> 0, room |-> Absent, currentTime |-> 0]

\* The registered users, and the preferences a new User document gets from
\* the schema's defaults.
UserIds == {"u1", "u2"}
DefaultPreferences == [theme |-> "dark", audioQuality |-> "high", autoPlay |-> TRUE]

\* process.env.NODE_ENV as the deployments set it.
NodeEnvs == {"development", "production"}

\* The ids a request can name: two of the channel's videos and a stranger.
VideoIds == {"v1", "v2", "zz"}

\* A request: route, ?q= (absent, a string, or what the query parser makes of
\* q[]=...), :videoId, ?format=, ?quality=, and whether a Range header came.
Request(kind, q, videoId, format, quality, range) ==
  [kind |-> kind, q |-> q, videoId |-> videoId, format |-> format,
   quality |-> quality, range |-> range]

NoQuery == [given |-> "none", text |-> <<>>]
ListRequest == Request("list", NoQuery, "", Absent, Absent, FALSE)

InitCommon ==
  /\ now = 0
  /\ redisConfigured \in BOOLEAN
  /\ cache = NoEntry
  /\ videos = [r \in Reqs |-> <<>>]
  /\ result = [r \in Reqs |-> <<>>]
  /\ raised = [r \in Reqs |-> FALSE]
  /\ outcome = [r \in Reqs |-> "none"]
  /\ expiredRead = [r \in Reqs |-> FALSE]
  /\ fetched = [r \in Reqs |-> NoFetch]
  /\ catalogCalls = [r \in Reqs |-> 0]
  /\ lastWriter = 0
  /\ convCall = [r \in Reqs |-> NoCall]
  /\ convCalls = 0
  /\ convReply = [r \in Reqs |-> NoReply]
  /\ downloadResult = [r \in Reqs |-> NoDownload]
  /\ downloadCount = [v \in VideoIds |-> 0]
  /\ response = [r \in Reqs |-> NoResponse]
  /\ nodeEnv \in NodeEnvs
  /\ mixes = <<>>
  /\ clientOptions = [r \in Reqs |-> NoOptions]
  /\ connected = {}
  /\ joined = [c \in Clients |-> {}]
  /\ lastEmit = NoEmit
  /\ recipients = {}
  /\ users = [u \in UserIds |-> DefaultPreferences]
  /\ isPlaying = FALSE
  /\ paused = TRUE
  /\ ended = FALSE
  /\ canPlay = FALSE
  /\ pendingPlay = 0
  /\ taskQueue = <<>>
  /\ calls = 0

\* GET /api/channel/videos, NumReq of them in flight.
Init ==
  /\ InitCommon
  /\ req = [r \in Reqs |-> ListRequest]
  /\ pc = [r \in Reqs |-> "get"]

\* ----------------------------------------------------------- responses
\* res.json({ success: true, videos, total: videos.length, ... })
ListResponse(list) ==
  [status |-> 200, type |-> "json", success |-> TRUE, videos |-> list, total |-> Len(list)]

\* const { q = '' } = req.query
QueryText(q) == IF q.given = "none" THEN <<>> ELSE q.text

\* GET /api/search: the filter and res.json, or catch: 500 'Search failed'
\* (q.toLowerCase is not a function when q is not a string).
SearchResponse(list, q) ==
  IF q.given = "other" /\ Len(list) > 0
  THEN [status |-> 500, type |-> "json", success |-> FALSE, error |-> "Search failed"]
  ELSE LET filtered == FilterVideos(list, QueryText(q))
       IN  [status |-> 200, type |-> "json", success |-> TRUE, videos |-> filtered,
            total |-> Len(filtered), query |-> QueryText(q)]

\* res.status(404).json({ success: false, error: 'Video not found in channel' })
NotFoundResponse ==
  [status |-> 404, type |-> "json", success |-> FALSE, error |-> "Video not found in channel"]

\* res.status(500).json({ success: false, error: 'Download service unavailable', message })
UnavailableResponse(dl) ==
  [status |-> 500, type |-> "json", success |-> FALSE,
   error |-> "Download service unavailable", message |-> dl.error]

\* Mutant: the catch block sends nothing.
DownloadFailedSilent(message) == NoResponse

\* catch: res.status(500).json({ success: false, error: 'Download failed', message })
DownloadFailedResponse(message) ==
  [status |-> 500, type |-> "json", success |-> FALSE, error |-> "Download failed",
   message |-> message]

\* res.json({ success: true, video: {...}, download: {...} })
DownloadResponse(video, dl) ==
  [status |-> 200, type |-> "json", success |-> TRUE,
   video |-> [videoId |-> video.videoId, title |-> video.title,
              thumbnail |-> video.thumbnail, channel |-> video.channelTitle],
   download |-> [url |-> dl.downloadUrl, format |-> dl.format, quality |-> dl.quality,
                 duration |-> dl.duration, expiresIn |-> 24 * 60 * 60 * 1000]]

\* res.redirect(url), after the Accept-Ranges and Content-Type headers if a
\* Range header came.
RedirectResponse(url, range) ==
  [status |-> 302, type |-> "redirect", location |-> url, acceptRanges |-> range]

\* res.status(400).send('Range header required')
RangeRequiredResponse ==
  [status |-> 400, type |-> "text", text |-> "Range header required"]

\* res.status(500).json({ error: 'Streaming unavailable' })
StreamUnavailableResponse ==
  [status |-> 500, type |-> "json", error |-> "Streaming unavailable", acceptRanges |-> TRUE]

\* Mutant: any non-empty catalog is taken to hold the video.
HasVideoNonEmpty(list, videoId) == Len(list) > 0

\* videos.find(v => v.videoId === videoId)
HasVideo(list, videoId) == \E i \in 1..Len(list) : list[i].videoId = videoId
FindVideo(list, videoId) ==
  list[CHOOSE i \in 1..Len(list) :
         /\ list[i].videoId = videoId
         /\ \A j \in 1..(i - 1) : list[j].videoId # videoId]

\* const { format = 'mp3', quality = '320kbps' } = req.query
FormatOf(request) == OrElse(request.format, "mp3")
QualityOf(request) == OrElse(request.quality, "320kbps")

\* The arguments the handler passes to downloadFromGiftedTech: the stream
\* handler's are fixed, the download handler's come from the query string.
ConvertFormat(request) == IF request.kind = "stream" THEN "mp3" ELSE FormatOf(request)
ConvertQuality(request) == IF request.kind = "stream" THEN "320kbps" ELSE QualityOf(request)

\* -------------------------------------------- downloadFromGiftedTech
\* Mutant: a request whose call is already in flight for another request
\* shares that call instead of issuing its own.
IssueConvertDeduplicated(r, videoId, format, quality) ==
  LET call == BuildApiUrl(videoId, format, quality) IN
  /\ convCall' = [convCall EXCEPT ![r] = call]
  /\ convCalls' = IF \E o \in Reqs \ {r} : pc[o] = "convert" /\ convCall[o] = call
                  THEN convCalls ELSE convCalls + 1
  /\ pc' = [pc EXCEPT ![r] = "convert"]

\* downloadFromGiftedTech up to its await: the URL is built and
\* axios.get(apiUrl, { timeout: 30000 }) is issued.
IssueConvert(r, videoId, format, quality) ==
  /\ convCall' = [convCall EXCEPT ![r] = BuildApiUrl(videoId, format, quality)]
  /\ convCalls' = convCalls + 1
  /\ pc' = [pc EXCEPT ![r] = "convert"]

\* ------------------------------------------- fetchYouTubeChannelVideos
\* The handler's code that follows `await fetchYouTubeChannelVideos()`, up to
\* its response or its next await.
Continue(r, list) ==
  CASE req[r].kind = "list" ->
         /\ response' = [response EXCEPT ![r] = ListResponse(list)]
         /\ pc' = [pc EXCEPT ![r] = "done"]
         /\ UNCHANGED <<convCall, convCalls>>
    [] req[r].kind = "search" ->
         /\ response' = [response EXCEPT ![r] = SearchResponse(list, req[r].q)]
         /\ pc' = [pc EXCEPT ![r] = "done"]
         /\ UNCHANGED <<convCall, convCalls>>
    [] req[r].kind = "download" ->
         IF HasVideo(list, req[r].videoId)
         THEN /\ IssueConvert(r, req[r].videoId, ConvertFormat(req[r]), ConvertQuality(req[r]))
              /\ UNCHANGED response
         ELSE /\ response' = [response EXCEPT ![r] = NotFoundResponse]
              /\ pc' = [pc EXCEPT ![r] = "done"]
              /\ UNCHANGED <<convCall, convCalls>>

\* The request stays inside fetchYouTubeChannelVideos, at its next await.
Stay(r, at) ==
  /\ pc' = [pc EXCEPT ![r] = at]
  /\ UNCHANGED <<result, outcome, raised, response, convCall, convCalls>>

\* return <list> from fetchYouTubeChannelVideos, on path `how`.
Return(r, list, how) ==
  /\ result' = [result EXCEPT ![r] = list]
  /\ outcome' = [outcome EXCEPT ![r] = how]
  /\ UNCHANGED raised
  /\ Continue(r, list)

\* Mutant: the catch block rethrows.
CatchRethrow(r, how) ==
  /\ raised' = [raised EXCEPT ![r] = TRUE]
  /\ outcome' = [outcome EXCEPT ![r] = how]
  /\ pc' = [pc EXCEPT ![r] = "done"]
  /\ UNCHANGED <<result, response, convCall, convCalls>>

\* catch (error) { console.error(...); return []; }
Catch(r, how) == Return(r, <<>>, how)

\* const cached = await redis.get(cacheKey); if (cached) return JSON.parse(cached);
\* A rejected get (the connection to the store is lost) lands in catch.
CacheGet(r) ==
  /\ pc[r] = "get"
  /\ \E ok \in (IF redisConfigured THEN BOOLEAN ELSE {TRUE}) :
       LET cached == RedisGet(redisConfigured, cache, now) IN
       /\ expiredRead' = [expiredRead EXCEPT ![r] = cache.has /\ now >= cache.setAt + cache.ttl]
       /\ IF ~ok
          THEN Catch(r, "getError")
          ELSE IF Truthy(cached)
          THEN Return(r, JSONParse(cached.text), "hit")
          ELSE Stay(r, "fetch")
  /\ UNCHANGED <<now, redisConfigured, cache, req, videos, fetched, catalogCalls,
                 lastWriter, convReply, downloadResult, downloadCount>>
  /\ UNCHANGED restVars

\* Mutant: a rejected call is taken for an empty channel and cached.
CatalogFetchStoresFailure(r, responses) ==
  /\ pc[r] = "fetch"
  /\ \E resp \in responses :
       /\ fetched' = [fetched EXCEPT ![r] = resp]
       /\ catalogCalls' = [catalogCalls EXCEPT ![r] = @ + 1]
       /\ videos' = [videos EXCEPT ![r] =
            IF resp.ok /\ ~MapThrows(resp.items) THEN MapItems(resp.items) ELSE <<>>]
       /\ Stay(r, "setex")
  /\ UNCHANGED <<now, redisConfigured, cache, req, expiredRead, lastWriter,
                 convReply, downloadResult, downloadCount>>
  /\ UNCHANGED restVars

\* const response = await axios.get(url); const videos = response.data.items.map(...)
\* and redis.setex is issued.  A rejected call, or an item the mapping
\* cannot read, lands in catch.
CatalogFetch(r, responses) ==
  /\ pc[r] = "fetch"
  /\ \E resp \in responses :
       /\ fetched' = [fetched EXCEPT ![r] = resp]
       /\ catalogCalls' = [catalogCalls EXCEPT ![r] = @ + 1]
       /\ IF ~resp.ok
          THEN /\ Catch(r, "upstreamError")
               /\ UNCHANGED videos
          ELSE IF MapThrows(resp.items)
          THEN /\ Catch(r, "mapError")
               /\ UNCHANGED videos
          ELSE /\ videos' = [videos EXCEPT ![r] = MapItems(resp.items)]
               /\ Stay(r, "setex")
  /\ UNCHANGED <<now, redisConfigured, cache, req, expiredRead, lastWriter,
                 convReply, downloadResult, downloadCount>>
  /\ UNCHANGED restVars

\* Mutant: an empty list is returned without being cached.
CacheSetexSkipsEmpty(r) ==
  /\ pc[r] = "setex"
  /\ \E ok \in (IF redisConfigured THEN BOOLEAN ELSE {TRUE}) :
       IF ok
       THEN /\ cache' = IF videos[r] = <<>> THEN cache
                        ELSE RedisSetex(redisConfigured, cache, TTL, JSONStringify(videos[r]), now)
            /\ lastWriter' = IF videos[r] = <<>> THEN lastWriter ELSE r
            /\ Return(r, videos[r], "stored")
       ELSE /\ Catch(r, "setexError")
            /\ UNCHANGED <<cache, lastWriter>>
  /\ UNCHANGED <<now, redisConfigured, req, videos, expiredRead, fetched, catalogCalls,
                 convReply, downloadResult, downloadCount>>
  /\ UNCHANGED restVars

\* await redis.setex(cacheKey, 3600, JSON.stringify(videos)); return videos;
\* A rejected setex lands in catch.
CacheSetex(r) ==
  /\ pc[r] = "setex"
  /\ \E ok \in (IF redisConfigured THEN BOOLEAN ELSE {TRUE}) :
       IF ok
       THEN /\ cache' = RedisSetex(redisConfigured, cache, TTL, JSONStringify(videos[r]), now)
            /\ lastWriter' = r
            /\ Return(r, videos[r], "stored")
       ELSE /\ Catch(r, "setexError")
            /\ UNCHANGED <<cache, lastWriter>>
  /\ UNCHANGED <<now, redisConfigured, req, videos, expiredRead, fetched, catalogCalls,
                 convReply, downloadResult, downloadCount>>
  /\ UNCHANGED restVars

\* Time passes.  The clock is sampled one second before and exactly at every
\* multiple of the time to live: the two sides of an expiry.
NextSample(t) == IF t % TTL = TTL - 1 THEN t + 1 ELSE t - (t % TTL) + TTL - 1

Tick ==
  /\ now < Horizon
  /\ now' = NextSample(now)
  /\ UNCHANGED <<redisConfigured, cache, req, pc, lastWriter, response>>
  /\ UNCHANGED fetchVars
  /\ UNCHANGED convVars
  /\ UNCHANGED restVars

Next ==
  \/ \E r \in Reqs : CacheGet(r)
  \/ \E r \in Reqs : CatalogFetch(r, CatalogResponses)
  \/ \E r \in Reqs : CacheSetex(r)
  \/ Tick

Spec == Init /\ [][Next]_vars

\* --------------------------------------------------- GET /api/search
\* The characters a query is typed in.
QueryChars == {"b", "B", "O", "i"}

QueryInputs ==
  {NoQuery, [given |-> "other", text |-> <<>>]}
    \cup {[given |-> "string", text |-> t] : t \in SeqsUpTo(QueryChars, MaxQueryLen)}

SearchResponses ==
  {[ok |-> FALSE, items |-> <<>>]}
    \cup {[ok |-> TRUE, items |-> l] : l \in Listings({RawV1, RawV2, RawV3}, MaxItems)}

\* One search request, for every query and every catalog.
InitSearch ==
  /\ InitCommon
  /\ \E q \in QueryInputs :
       req = [r \in Reqs |-> IF r = 1 THEN Request("search", q, "", Absent, Absent, FALSE)
                                      ELSE ListRequest]
  /\ pc = [r \in Reqs |-> IF r = 1 THEN "get" ELSE "idle"]

NextSearch ==
  \/ \E r \in Reqs : CacheGet(r)
  \/ \E r \in Reqs : CatalogFetch(r, SearchResponses)
  \/ \E r \in Reqs : CacheSetex(r)

SpecSearch == InitSearch /\ [][NextSearch]_vars

\* ------------------------- GET /api/download/:videoId, GET /api/stream/:videoId
\* The handler's code that follows `await downloadFromGiftedTech(...)`.
AfterConvert(r, dl) ==
  CASE req[r].kind = "download" ->
         IF ~dl.success
         THEN /\ response' = [response EXCEPT ![r] = UnavailableResponse(dl)]
              /\ pc' = [pc EXCEPT ![r] = "done"]
         ELSE /\ pc' = [pc EXCEPT ![r] = "mix"]
              /\ UNCHANGED response
    [] req[r].kind = "stream" ->
         /\ response' = [response EXCEPT ![r] =
              IF dl.success THEN RedirectResponse(dl.downloadUrl, req[r].range)
              ELSE IF req[r].range THEN StreamUnavailableResponse
              ELSE RangeRequiredResponse]
         /\ pc' = [pc EXCEPT ![r] = "done"]

\* Mutant: the stream handler answers 404 for an id that is none of the
\* channel's videos.
StreamStartKnownOnly(r) ==
  /\ pc[r] = "start"
  /\ req[r].kind = "stream"
  /\ IF req[r].videoId \in {"v1", "v2"}
     THEN /\ IssueConvert(r, req[r].videoId, ConvertFormat(req[r]), ConvertQuality(req[r]))
          /\ UNCHANGED response
     ELSE /\ response' = [response EXCEPT ![r] = NotFoundResponse]
          /\ pc' = [pc EXCEPT ![r] = "done"]
          /\ UNCHANGED <<convCall, convCalls>>
  /\ UNCHANGED <<now, redisConfigured, cache, req, lastWriter, convReply,
                 downloadResult, downloadCount>>
  /\ UNCHANGED fetchVars
  /\ UNCHANGED restVars

\* GET /api/stream/:videoId up to its await: both branches call
\* downloadFromGiftedTech(videoId, 'mp3', '320kbps').
StreamStart(r) ==
  /\ pc[r] = "start"
  /\ req[r].kind = "stream"
  /\ IssueConvert(r, req[r].videoId, ConvertFormat(req[r]), ConvertQuality(req[r]))
  /\ UNCHANGED <<now, redisConfigured, cache, req, lastWriter, convReply,
                 downloadResult, downloadCount, response>>
  /\ UNCHANGED fetchVars
  /\ UNCHANGED restVars

\* The External Conversion Service answers (or the call fails), and
\* downloadFromGiftedTech returns to the handler.
ConvertReply(r) ==
  /\ pc[r] = "convert"
  /\ \E reply \in ConvResponses :
       LET dl == DownloadResult(ConvertFormat(req[r]), ConvertQuality(req[r]), reply) IN
       /\ convReply' = [convReply EXCEPT ![r] = reply]
       /\ downloadResult' = [downloadResult EXCEPT ![r] = dl]
       /\ AfterConvert(r, dl)
  /\ UNCHANGED <<now, redisConfigured, cache, req, lastWriter, convCall, convCalls,
                 downloadCount>>
  /\ UNCHANGED fetchVars
  /\ UNCHANGED restVars

\* The message of the error a rejected database operation carries.
MongoError == "connect ECONNREFUSED 127.0.0.1:27017"

\* Mutant: the update writes the count of a first download instead of
\* incrementing.
MixUpdateOverwrites(r) ==
  /\ pc[r] = "mix"
  /\ \E ok \in BOOLEAN :
       IF ok
       THEN /\ downloadCount' = [downloadCount EXCEPT ![req[r].videoId] = 1]
            /\ response' = [response EXCEPT ![r] =
                 DownloadResponse(FindVideo(result[r], req[r].videoId), downloadResult[r])]
       ELSE /\ response' = [response EXCEPT ![r] = DownloadFailedResponse(MongoError)]
            /\ UNCHANGED downloadCount
  /\ pc' = [pc EXCEPT ![r] = "done"]
  /\ UNCHANGED <<now, redisConfigured, cache, req, lastWriter, convCall, convCalls,
                 convReply, downloadResult>>
  /\ UNCHANGED fetchVars
  /\ UNCHANGED restVars

\* await Mix.findOneAndUpdate({ videoId }, { $inc: { downloadCount: 1 } }, { upsert: true })
\* and res.json; a rejected update lands in the handler's catch.
MixUpdate(r) ==
  /\ pc[r] = "mix"
  /\ \E ok \in BOOLEAN :
       IF ok
       THEN /\ downloadCount' = [downloadCount EXCEPT ![req[r].videoId] = @ + 1]
            /\ response' = [response EXCEPT ![r] =
                 DownloadResponse(FindVideo(result[r], req[r].videoId), downloadResult[r])]
       ELSE /\ response' = [response EXCEPT ![r] = DownloadFailedResponse(MongoError)]
            /\ UNCHANGED downloadCount
  /\ pc' = [pc EXCEPT ![r] = "done"]
  /\ UNCHANGED <<now, redisConfigured, cache, req, lastWriter, convCall, convCalls,
                 convReply, downloadResult>>
  /\ UNCHANGED fetchVars
  /\ UNCHANGED restVars

\* ?format= and ?quality= as a client may send them (absent: the defaults).
FormatPairs ==
  {<<Absent, Absent>>, <<"audio", "mp3">>, <<"audio", "320kbps">>, <<"audio", Absent>>,
   <<"video", "720p">>, <<"video", "480p">>, <<"mp4", "720p">>}

ConvRequests ==
  {Request("download", NoQuery, v, fq[1], fq[2], FALSE) : v \in {"v1", "zz"}, fq \in FormatPairs}
    \cup {Request("stream", NoQuery, v, Absent, Absent, range) : v \in {"v1", "zz"}, range \in BOOLEAN}

StartOf(request) == IF request.kind = "stream" THEN "start" ELSE "get"

ConvCatalogResponses ==
  {[ok |-> FALSE, items |-> <<>>], [ok |-> TRUE, items |-> <<RawV2, RawV1>>]}

\* One download or stream request, for every id, format, quality and answer
\* of the External Conversion Service.
InitConvert ==
  /\ InitCommon
  /\ \E x \in ConvRequests :
       /\ req = [r \in Reqs |-> IF r = 1 THEN x ELSE ListRequest]
       /\ pc = [r \in Reqs |-> IF r = 1 THEN StartOf(x) ELSE "idle"]

NextConvert ==
  \/ \E r \in Reqs : CacheGet(r)
  \/ \E r \in Reqs : CatalogFetch(r, ConvCatalogResponses)
  \/ \E r \in Reqs : CacheSetex(r)
  \/ \E r \in Reqs : StreamStart(r)
  \/ \E r \in Reqs : ConvertReply(r)
  \/ \E r \in Reqs : MixUpdate(r)

SpecConvert == InitConvert /\ [][NextConvert]_vars

\* Download and stream requests in flight together.
ManyRequests ==
  {Request("download", NoQuery, "v1", "audio", "mp3", FALSE),
   Request("download", NoQuery, "zz", "audio", "mp3", FALSE),
   Request("stream", NoQuery, "v1", Absent, Absent, FALSE),
   Request("stream", NoQuery, "zz", Absent, Absent, TRUE)}

InitConvertMany ==
  /\ InitCommon
  /\ req \in [Reqs -> ManyRequests]
  /\ pc = [r \in Reqs |-> StartOf(req[r])]

SpecConvertMany == InitConvertMany /\ [][NextConvert]_vars

\* ------------------------------------------- GET /api/stream/:videoId alone
\* Stream requests for one id, with and without a Range header, in flight
\* together.
StreamRequests(videoId) ==
  {Request("stream", NoQuery, videoId, Absent, Absent, range) : range \in BOOLEAN}

InitStream ==
  /\ InitCommon
  /\ \E v \in {"v1", "zz"} : req \in [Reqs -> StreamRequests(v)]
  /\ pc = [r \in Reqs |-> "start"]

NextStream ==
  \/ \E r \in Reqs : StreamStart(r)
  \/ \E r \in Reqs : ConvertReply(r)

SpecStream == InitStream /\ [][NextStream]_vars

\* -------------------------------------- GET /api/download/options/:videoId
Option(quality, label, format, size) ==
  [quality |-> quality, label |-> label, format |-> format, size |-> size]

\* const options = { video: [...], audio: [...] }
DownloadOptionsMenu ==
  [video |-> <<Option("720p", "HD Video (720p)", "mp4", "~120MB"),
               Option("480p", "Standard Video (480p)", "mp4", "~80MB"),
               Option("360p", "Mobile Video (360p)", "mp4", "~50MB")>>,
   audio |-> <<Option("320kbps", "High Quality Audio (320kbps)", "mp3", "~40MB"),
               Option("192kbps", "Good Quality Audio (192kbps)", "mp3", "~25MB"),
               Option("128kbps", "Standard Audio (128kbps)", "mp3", "~15MB"),
               Option("mp3", "MP3 Format", "mp3", "~40MB")>>]

\* Mutant: the menu is only given for the channel's videos.
OptionsResponseKnownOnly(videoId) ==
  IF videoId \in {"v1", "v2"}
  THEN [status |-> 200, type |-> "json", success |-> TRUE, videoId |-> videoId,
        options |-> DownloadOptionsMenu]
  ELSE [status |-> 404, type |-> "json", success |-> FALSE, videoId |-> videoId,
        options |-> NoOptions]

\* res.json({ success: true, videoId, options, timestamp })
OptionsResponse(videoId) ==
  [status |-> 200, type |-> "json", success |-> TRUE, videoId |-> videoId,
   options |-> DownloadOptionsMenu]

OptionsRequest(videoId) == Request("options", NoQuery, videoId, Absent, Absent, FALSE)

\* The handler: it reads req.params.videoId and answers; nothing in its try
\* block can throw, and it calls neither the cache nor an upstream service.
OptionsHandler(r) ==
  /\ pc[r] = "start"
  /\ req[r].kind = "options"
  /\ response' = [response EXCEPT ![r] = OptionsResponse(req[r].videoId)]
  /\ pc' = [pc EXCEPT ![r] = "sent"]
  /\ UNCHANGED <<now, redisConfigured, cache, req, lastWriter>>
  /\ UNCHANGED fetchVars
  /\ UNCHANGED convVars
  /\ UNCHANGED restVars

\* The browser client's getDownloadOptions, catch branch: the menu it falls
\* back to.
FallbackOptions ==
  [video |-> <<Option("720p", "HD Video (720p)", "mp4", "~120MB"),
               Option("480p", "Standard Video (480p)", "mp4", "~80MB")>>,
   audio |-> <<Option("320kbps", "High Quality Audio (320kbps)", "mp3", "~40MB"),
               Option("128kbps", "Standard Audio (128kbps)", "mp3", "~15MB")>>]

\* The client's fetch rejects before the request reaches the server.
ClientFetchRejects(r) ==
  /\ pc[r] = "start"
  /\ req[r].kind = "options"
  /\ clientOptions' = [clientOptions EXCEPT ![r] = FallbackOptions]
  /\ pc' = [pc EXCEPT ![r] = "done"]
  /\ UNCHANGED <<now, redisConfigured, cache, req, lastWriter, response, nodeEnv, mixes>>
  /\ UNCHANGED moreVars
  /\ UNCHANGED fetchVars
  /\ UNCHANGED convVars

\* The client's getDownloadOptions after the server has answered: the body
\* is read (or reading it fails), and data.options is returned when
\* data.success, the fallback menu otherwise.
ClientOptionsReturn(r) ==
  /\ pc[r] = "sent"
  /\ req[r].kind = "options"
  /\ \E delivered \in BOOLEAN :
       clientOptions' = [clientOptions EXCEPT ![r] =
         IF delivered /\ response[r].success THEN response[r].options
         ELSE FallbackOptions]
  /\ pc' = [pc EXCEPT ![r] = "done"]
  /\ UNCHANGED <<now, redisConfigured, cache, req, lastWriter, response, nodeEnv, mixes>>
  /\ UNCHANGED moreVars
  /\ UNCHANGED fetchVars
  /\ UNCHANGED convVars

InitOptions ==
  /\ InitCommon
  /\ req \in [Reqs -> {OptionsRequest(v) : v \in VideoIds}]
  /\ pc = [r \in Reqs |-> "start"]

NextOptions ==
  \/ \E r \in Reqs : OptionsHandler(r)
  \/ \E r \in Reqs : ClientFetchRejects(r)
  \/ \E r \in Reqs : ClientOptionsReturn(r)

SpecOptions == InitOptions /\ [][NextOptions]_vars

\* ------------------------------------------------------ POST /api/upload
\* A file part of the multipart body: its mimetype as type/subtype, its
\* original name as stem and extension, whether it exceeds limits.fileSize,
\* and its content: four times the mean of the bytes that generateWaveform
\* samples in a chunk (the file is at least 100 bytes long and every chunk
\* has that mean).  NoFile: the body has no 'audio' part.
File(type, subtype, stem, ext, tooLarge, samples) ==
  [present |-> TRUE, mimetype |-> [type |-> type, subtype |-> subtype],
   originalname |-> [stem |-> stem, ext |-> ext], tooLarge |-> tooLarge,
   samples |-> samples]
NoFile ==
  [present |-> FALSE, mimetype |-> [type |-> Absent, subtype |-> Absent],
   originalname |-> [stem |-> Absent, ext |-> Absent], tooLarge |-> FALSE,
   samples |-> 0]

\* Math.sqrt of a square.
Sqrt(n) == CHOOSE s \in 0..n : s * s = n

\* generateWaveform: a hundred chunks, for each Math.min(100, rms * 100)
\* where rms = Math.sqrt(sum / (chunk.length / 4)).
GenerateWaveform(file) ==
  LET rms100 == 50 * Sqrt(file.samples)
  IN  [i \in 1..WaveformLength |-> IF rms100 < 100 THEN rms100 ELSE 100]

\* fileFilter: allowedTypes.test(file.mimetype) || allowedVideo.test(file.mimetype)
AllowedMimetype(mimetype) ==
  \/ /\ mimetype.type = "audio"
     /\ mimetype.subtype \in {"mp3", "wav", "mpeg", "ogg", "flac", "aac", "m4a"}
  \/ /\ mimetype.type = "video"
     /\ mimetype.subtype \in {"mp4", "webm", "ogg"}

UploadRequest(file, title) == [kind |-> "upload", file |-> file, title |-> title]

\* Global error handler: a MulterError is answered 400 with its message
\* inside the error text (`File upload error: ${error.message}`), any other
\* error 500 with its message only when NODE_ENV is 'development'.
GlobalErrorResponse(isMulterError, message, env) ==
  IF isMulterError
  THEN [status |-> 400, type |-> "json", error |-> <<"File upload error: ", message>>]
  ELSE [status |-> 500, type |-> "json", error |-> "Internal server error",
        message |-> IF env = "development" THEN message ELSE Absent]

\* res.status(400).json({ error: 'No file uploaded' })
NoFileResponse == [status |-> 400, type |-> "json", error |-> "No file uploaded"]

\* catch: res.status(500).json({ error: 'Upload failed', message: error.message })
UploadFailedResponse(message) ==
  [status |-> 500, type |-> "json", error |-> "Upload failed", message |-> message]

\* new Mix({ title: title || originalname without its extension, ... })
\* videoId is `upload_${Date.now()}`: the requests build their Mix at
\* different milliseconds, `stamp` tells them apart.
UploadId(stamp) == <<"upload_1", "upload_2", "upload_3", "upload_4">>[stamp]

NewMix(request, secureUrl, stamp) ==
  [videoId |-> UploadId(stamp),
   title |-> OrElse(request.title, request.file.originalname.stem),
   artist |-> "Unknown Artist", audioUrl |-> secureUrl,
   waveform |-> JSONStringify(GenerateWaveform(request.file)), uploadedBy |-> "user"]

\* res.json({ success: true, mix: {...} })
UploadResponse(mix) ==
  [status |-> 200, type |-> "json", success |-> TRUE, title |-> mix.title,
   waveform |-> JSONParse(mix.waveform),
   audioUrl |-> mix.audioUrl]

\* upload.single('audio') and the handler up to its first await.  multer
\* passes the filter's Error, or its own MulterError for a file over the size
\* limit, to next(), which lands in the global error handler; otherwise the
\* handler runs, answers 400 without a file, and else starts the Cloudinary
\* upload.
UploadReceive(r) ==
  /\ pc[r] = "start"
  /\ req[r].kind = "upload"
  /\ LET file == req[r].file IN
     IF file.present /\ ~AllowedMimetype(file.mimetype)
     THEN /\ response' = [response EXCEPT ![r] = GlobalErrorResponse(FALSE,
                "Invalid file type. Only audio/video files are allowed.", nodeEnv)]
          /\ pc' = [pc EXCEPT ![r] = "done"]
     ELSE IF file.present /\ file.tooLarge
     THEN /\ response' = [response EXCEPT ![r] =
                GlobalErrorResponse(TRUE, "File too large", nodeEnv)]
          /\ pc' = [pc EXCEPT ![r] = "done"]
     ELSE IF ~file.present
     THEN /\ response' = [response EXCEPT ![r] = NoFileResponse]
          /\ pc' = [pc EXCEPT ![r] = "done"]
     ELSE /\ pc' = [pc EXCEPT ![r] = "cloudinary"]
          /\ UNCHANGED response
  /\ UNCHANGED <<now, redisConfigured, cache, req, lastWriter>>
  /\ UNCHANGED fetchVars
  /\ UNCHANGED convVars
  /\ UNCHANGED restVars

\* await cloudinary.v2.uploader.upload(...), then the waveform is computed
\* and mix.save() is issued; a rejected upload lands in the handler's catch.
UploadCloudinary(r) ==
  /\ pc[r] = "cloudinary"
  /\ \E ok \in BOOLEAN :
       IF ok
       THEN /\ pc' = [pc EXCEPT ![r] = "save"]
            /\ UNCHANGED response
       ELSE /\ response' = [response EXCEPT ![r] = UploadFailedResponse("cloudinary unavailable")]
            /\ pc' = [pc EXCEPT ![r] = "done"]
  /\ UNCHANGED <<now, redisConfigured, cache, req, lastWriter>>
  /\ UNCHANGED fetchVars
  /\ UNCHANGED convVars
  /\ UNCHANGED restVars

\* await mix.save(), then the temporary file is removed and the mix is
\* reported; a rejected save lands in the handler's catch.
UploadSave(r) ==
  /\ pc[r] = "save"
  /\ \E ok \in BOOLEAN :
       LET mix == NewMix(req[r], "https://res.cloudinary.com/upload", r) IN
       IF ok
       THEN /\ mixes' = Append(mixes, mix)
            /\ response' = [response EXCEPT ![r] = UploadResponse(mix)]
       ELSE /\ response' = [response EXCEPT ![r] = UploadFailedResponse(MongoError)]
            /\ UNCHANGED mixes
  /\ pc' = [pc EXCEPT ![r] = "done"]
  /\ UNCHANGED <<now, redisConfigured, cache, req, lastWriter, nodeEnv, clientOptions>>
  /\ UNCHANGED moreVars
  /\ UNCHANGED fetchVars
  /\ UNCHANGED convVars

\* The uploads a client may send: no file, an audio file with or without a
\* title, an audio file over the size limit, an image, a text file.
UploadRequests ==
  {UploadRequest(NoFile, "My Mix"),
   UploadRequest(File("audio", "mpeg", "set", ".mp3", FALSE, 1), Absent),
   UploadRequest(File("audio", "mpeg", "set", ".mp3", FALSE, 0), "My Mix"),
   UploadRequest(File("video", "mp4", "clip", ".mp4", TRUE, 4), Absent),
   UploadRequest(File("image", "png", "cover", ".png", FALSE, 16), Absent),
   UploadRequest(File("audio", "midi", "tune", ".mid", FALSE, 4), Absent)}

InitUpload ==
  /\ InitCommon
  /\ req \in [Reqs -> UploadRequests]
  /\ pc = [r \in Reqs |-> "start"]

NextUpload ==
  \/ \E r \in Reqs : UploadReceive(r)
  \/ \E r \in Reqs : UploadCloudinary(r)
  \/ \E r \in Reqs : UploadSave(r)

SpecUpload == InitUpload /\ [][NextUpload]_vars

\* ------------------------------------------------ GET /api/waveform/:videoId
WaveformRequest(videoId) == [kind |-> "waveform", videoId |-> videoId]

\* Mix.findOne({ videoId }): the uploaded mix with that id, if any.  The
\* documents that downloads upsert carry no waveform.
HasMix(store, videoId) == \E i \in 1..Len(store) : store[i].videoId = videoId
FindMix(store, videoId) == store[CHOOSE i \in 1..Len(store) : store[i].videoId = videoId]

\* Math.random() as a multiple of 1/RandomGrain in [0, 1): the i-th call of
\* a run that starts at `seed` and advances by `step`.
MathRandom(seed, step, i) == (seed + step * i) % RandomGrain

\* Mutant: the scale is one too wide.
RandomWaveformWide(seed, step) ==
  [i \in 1..WaveformLength |-> ((MathRandom(seed, step, i) * 81) \div RandomGrain) + 20]

\* Array.from({ length: 100 }, () => Math.floor(Math.random() * 80) + 20)
RandomWaveform(seed, step) ==
  [i \in 1..WaveformLength |-> ((MathRandom(seed, step, i) * 80) \div RandomGrain) + 20]

\* res.json({ success: true, waveform, duration })
WaveformResponse(waveform) ==
  [status |-> 200, type |-> "json", success |-> TRUE, waveform |-> waveform,
   duration |-> 180]

\* catch: res.status(500).json({ error: 'Failed to generate waveform' })
WaveformFailedResponse ==
  [status |-> 500, type |-> "json", error |-> "Failed to generate waveform"]

\* The runs of Math.random() that are tried: constant at either end of
\* [0, 1) and in the middle, and sweeping the whole grain.
RandomSeeds == {0, RandomGrain \div 2, RandomGrain - 1}
RandomSteps == {0, 1, 37}

\* The handler: await Mix.findOne, then the stored waveform parsed, or a
\* random one; a rejected query lands in catch.
WaveformHandler(r) ==
  /\ pc[r] = "start"
  /\ req[r].kind = "waveform"
  /\ \E ok \in BOOLEAN, seed \in RandomSeeds, step \in RandomSteps :
       response' = [response EXCEPT ![r] =
         IF ~ok THEN WaveformFailedResponse
         ELSE IF HasMix(mixes, req[r].videoId)
         THEN WaveformResponse(JSONParse(FindMix(mixes, req[r].videoId).waveform))
         ELSE WaveformResponse(RandomWaveform(seed, step))]
  /\ pc' = [pc EXCEPT ![r] = "done"]
  /\ UNCHANGED <<now, redisConfigured, cache, req, lastWriter>>
  /\ UNCHANGED fetchVars
  /\ UNCHANGED convVars
  /\ UNCHANGED restVars

\* An upload and requests for the waveform of the uploaded mix or of one of
\* the channel's videos, in any order.
InitWaveform ==
  /\ InitCommon
  /\ \E u \in UploadRequests :
       \E w \in [Reqs -> {WaveformRequest("v1"), WaveformRequest("upload_1")}] :
         req = [r \in Reqs |-> IF r = 1 THEN u ELSE w[r]]
  /\ pc = [r \in Reqs |-> "start"]

NextWaveform ==
  \/ \E r \in Reqs : UploadReceive(r)
  \/ \E r \in Reqs : UploadCloudinary(r)
  \/ \E r \in Reqs : UploadSave(r)
  \/ \E r \in Reqs : WaveformHandler(r)

SpecWaveform == InitWaveform /\ [][NextWaveform]_vars

\* ----------------------------------------------------- /api/profile/:userId
ProfileRequest(method, userId, preferences) ==
  [kind |-> "profile", method |-> method, userId |-> userId, preferences |-> preferences]

\* res.json({ success: true, user })
ProfileResponse(userId, preferences) ==
  [status |-> 200, type |-> "json", success |-> TRUE,
   user |-> [id |-> userId, preferences |-> preferences]]

\* res.status(404).json({ error: 'User not found' })
UserNotFoundResponse == [status |-> 404, type |-> "json", error |-> "User not found"]

\* catch: res.status(500).json({ error: 'Failed to fetch profile' })
ProfileFailedResponse == [status |-> 500, type |-> "json", error |-> "Failed to fetch profile"]

\* app.use('*'): res.status(404).json({ error: 'Endpoint not found', ... })
EndpointNotFoundResponse ==
  [status |-> 404, type |-> "json", error |-> "Endpoint not found"]

\* app.get('/api/profile/:userId'): await User.findById, then the user, 404
\* when there is none, 500 when the query is rejected.
ProfileGet(r) ==
  /\ pc[r] = "start"
  /\ req[r].kind = "profile" /\ req[r].method = "GET"
  /\ \E ok \in BOOLEAN :
       response' = [response EXCEPT ![r] =
         IF ~ok THEN ProfileFailedResponse
         ELSE IF req[r].userId \in UserIds
         THEN ProfileResponse(req[r].userId, users[req[r].userId])
         ELSE UserNotFoundResponse]
  /\ pc' = [pc EXCEPT ![r] = "done"]
  /\ UNCHANGED <<now, redisConfigured, cache, req, lastWriter>>
  /\ UNCHANGED fetchVars
  /\ UNCHANGED convVars
  /\ UNCHANGED restVars

\* No route is registered for PUT /api/profile/:userId: the request falls
\* through to the 404 handler.
ProfilePut(r) ==
  /\ pc[r] = "start"
  /\ req[r].kind = "profile" /\ req[r].method = "PUT"
  /\ response' = [response EXCEPT ![r] = EndpointNotFoundResponse]
  /\ pc' = [pc EXCEPT ![r] = "done"]
  /\ UNCHANGED <<now, redisConfigured, cache, req, lastWriter>>
  /\ UNCHANGED fetchVars
  /\ UNCHANGED convVars
  /\ UNCHANGED restVars

\* What the client sends: updateUserPreferences({ theme }) for the user who
\* is logged in, and loadUserPreferences for a user id it holds.
ProfileRequests ==
  {ProfileRequest("PUT", "u1", [theme |-> t]) : t \in {"light", "dark"}}
    \cup {ProfileRequest("GET", u, DefaultPreferences) : u \in {"u1", "u2", "zz"}}

InitProfile ==
  /\ InitCommon
  /\ req \in [Reqs -> ProfileRequests]
  /\ pc = [r \in Reqs |-> "start"]

NextProfile ==
  \/ \E r \in Reqs : ProfileGet(r)
  \/ \E r \in Reqs : ProfilePut(r)

SpecProfile == InitProfile /\ [][NextProfile]_vars

\* ------------------------------------------------- io.on('connection')
\* `player-${room}`
PlayerRoom(room) == <<"player-", room>>

\* Mutant: io.to(room), which does not leave the sender out.
IoTo(sender, room) == {c \in connected : PlayerRoom(room) \in joined[c]}

\* socket.to(`player-${room}`): the connected sockets in the room, except
\* the socket itself.
SocketTo(sender, room) ==
  {c \in connected \ {sender} : PlayerRoom(room) \in joined[c]}

\* A client opens its socket.
Connect(c) ==
  /\ c \notin connected
  /\ connected' = connected \cup {c}
  /\ UNCHANGED <<joined, lastEmit, recipients>>
  /\ UNCHANGED httpVars
  /\ UNCHANGED fetchVars
  /\ UNCHANGED convVars
  /\ UNCHANGED <<users, playerVars>>

\* socket.on('join-player', (room) => socket.join(`player-${room}`))
JoinPlayer(c, room) ==
  /\ c \in connected
  /\ joined' = [joined EXCEPT ![c] = @ \cup {PlayerRoom(room)}]
  /\ UNCHANGED <<connected, lastEmit, recipients>>
  /\ UNCHANGED httpVars
  /\ UNCHANGED fetchVars
  /\ UNCHANGED convVars
  /\ UNCHANGED <<users, playerVars>>

\* socket.on('audio-progress', (data) =>
\*   socket.to(`player-${data.room}`).emit('progress-update', data))
AudioProgress(c, data) ==
  /\ c \in connected
  /\ lastEmit' = [from |-> c, room |-> data.room, currentTime |-> data.currentTime]
  /\ recipients' = SocketTo(c, data.room)
  /\ UNCHANGED <<connected, joined>>
  /\ UNCHANGED httpVars
  /\ UNCHANGED fetchVars
  /\ UNCHANGED convVars
  /\ UNCHANGED <<users, playerVars>>

\* The socket closes: socket.io takes it out of every room.
Disconnect(c) ==
  /\ c \in connected
  /\ connected' = connected \ {c}
  /\ joined' = [joined EXCEPT ![c] = {}]
  /\ UNCHANGED <<lastEmit, recipients>>
  /\ UNCHANGED httpVars
  /\ UNCHANGED fetchVars
  /\ UNCHANGED convVars
  /\ UNCHANGED <<users, playerVars>>

ProgressData == {[room |-> room, currentTime |-> 42] : room \in RoomNames}

InitSocket ==
  /\ InitCommon
  /\ req = [r \in Reqs |-> ListRequest]
  /\ pc = [r \in Reqs |-> "idle"]

NextSocket ==
  \/ \E c \in Clients : Connect(c)
  \/ \E c \in Clients, room \in RoomNames : JoinPlayer(c, room)
  \/ \E c \in Clients, data \in ProgressData : AudioProgress(c, data)
  \/ \E c \in Clients : Disconnect(c)

SpecSocket == InitSocket /\ [][NextSocket]_vars

\* ------------------------------------------------------------ player
\* The browser client's player: player.isPlaying beside the audio element
\* it drives.  The element follows the HTML media element rules: play()
\* returns a promise that joins the element's pending play promises; once
\* the element can play, the pending promises are taken and a task is
\* queued that resolves them; pause() on an element that is not paused
\* takes the promises still pending and queues a task that rejects them.
\* A task and the promise callbacks it sets off run without any other
\* script in between.
Task(kind, promises) == [kind |-> kind, promises |-> promises]

\* function play(): player.element.play().then(...).catch(...).  A play()
\* the page is not allowed returns a rejected promise: the catch shows an
\* error and nothing else changes.  Otherwise an ended element seeks back
\* to its start, the element is no longer paused, and its promise is
\* either resolved by a queued task or left pending.
play(allowed) ==
  IF ~allowed
  THEN UNCHANGED <<isPlaying, paused, ended, pendingPlay, taskQueue>>
  ELSE /\ ended' = FALSE
       /\ paused' = FALSE
       /\ IF canPlay
          THEN /\ pendingPlay' = 0
               /\ taskQueue' = Append(taskQueue, Task("resolve", pendingPlay + 1))
          ELSE /\ pendingPlay' = pendingPlay + 1
               /\ UNCHANGED taskQueue
       /\ UNCHANGED isPlaying

\* function pause(): player.element.pause(); player.isPlaying = false.
pause ==
  /\ IF ~paused
     THEN /\ paused' = TRUE
          /\ taskQueue' = Append(taskQueue, Task("reject", pendingPlay))
          /\ pendingPlay' = 0
     ELSE UNCHANGED <<paused, taskQueue, pendingPlay>>
  /\ isPlaying' = FALSE
  /\ UNCHANGED ended

\* function togglePlay(): player.isPlaying ? pause() : play().
togglePlay(allowed) ==
  IF isPlaying THEN pause ELSE play(allowed)

\* What a call of the player's functions leaves alone.
PlayerCallFrame ==
  /\ calls < MaxCalls
  /\ calls' = calls + 1
  /\ UNCHANGED canPlay
  /\ UNCHANGED <<socketVars, users>>
  /\ UNCHANGED httpVars
  /\ UNCHANGED fetchVars
  /\ UNCHANGED convVars

\* The page calls play().
CallPlay ==
  /\ \E allowed \in BOOLEAN : play(allowed)
  /\ PlayerCallFrame

\* The page calls pause().
CallPause ==
  /\ pause
  /\ PlayerCallFrame

\* The page calls togglePlay().
CallTogglePlay ==
  /\ \E allowed \in BOOLEAN : togglePlay(allowed)
  /\ PlayerCallFrame

\* What a task of the element leaves alone.
PlayerTaskFrame ==
  /\ UNCHANGED calls
  /\ UNCHANGED <<socketVars, users>>
  /\ UNCHANGED httpVars
  /\ UNCHANGED fetchVars
  /\ UNCHANGED convVars

\* The task that resolves play promises runs, and with it each promise's
\* .then(() => { player.isPlaying = true; updatePlayerControls(); }).
PlayResolved ==
  /\ taskQueue # <<>>
  /\ Head(taskQueue).kind = "resolve"
  /\ taskQueue' = Tail(taskQueue)
  /\ isPlaying' = IF Head(taskQueue).promises > 0 THEN TRUE ELSE isPlaying
  /\ UNCHANGED <<paused, ended, pendingPlay, canPlay>>
  /\ PlayerTaskFrame

\* The task that rejects play promises runs, and with it each promise's
\* .catch(error => { console.error(...); showError(...); }).
PlayRejected ==
  /\ taskQueue # <<>>
  /\ Head(taskQueue).kind = "reject"
  /\ taskQueue' = Tail(taskQueue)
  /\ UNCHANGED <<isPlaying, paused, ended, pendingPlay, canPlay>>
  /\ PlayerTaskFrame

\* The element's end-of-playback task runs: an element that is still at its
\* end and not paused becomes paused and rejects its pending promises;
\* then 'ended' fires and the listener sets player.isPlaying = false.
EndedEvent ==
  /\ taskQueue # <<>>
  /\ Head(taskQueue).kind = "ended"
  /\ taskQueue' = Tail(taskQueue)
  /\ IF ended /\ ~paused
     THEN paused' = TRUE /\ pendingPlay' = 0
     ELSE UNCHANGED <<paused, pendingPlay>>
  /\ isPlaying' = FALSE
  /\ UNCHANGED <<ended, canPlay>>
  /\ PlayerTaskFrame

\* The element has buffered enough to play: an element that is not paused
\* takes its pending promises and queues the task that resolves them.
ElementCanPlay ==
  /\ ~canPlay
  /\ canPlay' = TRUE
  /\ IF ~paused
     THEN /\ taskQueue' = Append(taskQueue, Task("resolve", pendingPlay))
          /\ pendingPlay' = 0
     ELSE UNCHANGED <<taskQueue, pendingPlay>>
  /\ UNCHANGED <<isPlaying, paused, ended>>
  /\ PlayerTaskFrame

\* Playback reaches the end of the mix: the element has ended and queues
\* its end-of-playback task.
PlaybackEnds ==
  /\ canPlay /\ ~paused /\ ~ended
  /\ ended' = TRUE
  /\ taskQueue' = Append(taskQueue, Task("ended", 0))
  /\ UNCHANGED <<isPlaying, paused, pendingPlay, canPlay>>
  /\ PlayerTaskFrame

InitPlayer ==
  /\ InitCommon
  /\ req = [r \in Reqs |-> ListRequest]
  /\ pc = [r \in Reqs |-> "idle"]

NextPlayer ==
  \/ CallPlay
  \/ CallPause
  \/ CallTogglePlay
  \/ PlayResolved
  \/ PlayRejected
  \/ EndedEvent
  \/ ElementCanPlay
  \/ PlaybackEnds

SpecPlayer == InitPlayer /\ [][NextPlayer]_vars

\* ================================================================ claims
\* `list` is the item-by-item image of the upstream items `items`, in order.
SameList(list, items) ==
  /\ Len(list) = Len(items)
  /\ \A i \in 1..Len(items) :
       /\ list[i].videoId = items[i].videoId
       /\ list[i].title = items[i].title
       /\ list[i].description = items[i].description
       /\ list[i].publishedAt = items[i].publishedAt
       /\ list[i].channelTitle = items[i].channelTitle
       /\ list[i].thumbnail # Absent
       /\ list[i].thumbnail = items[i].high \/ (items[i].high = Absent /\ list[i].thumbnail = items[i].default)

WellFormed(items) ==
  \A i \in 1..Len(items) : items[i].high # Absent \/ items[i].default # Absent

\* The step in which request r's redis.get was answered (not rejected).
GetAnswered(r) == pc[r] = "get" /\ pc'[r] # "get" /\ outcome'[r] # "getError"

\* C1: whenever the cache holds a live value under the catalog key and a
\* request's redis.get is answered, the request returns exactly the stored
\* list, and it has made no call of the External Catalog Source, neither in
\* that step nor ever (a request that returned on a hit has call count 0).
C1_HitReturnsCachedWithoutUpstream ==
  [][\A r \in Reqs :
       /\ (GetAnswered(r) /\ cache.has /\ now < cache.setAt + TTL)
            => /\ pc'[r] = "done"
               /\ outcome'[r] = "hit"
               /\ result'[r] = cache.value.json
               /\ catalogCalls' = catalogCalls
       /\ (pc'[r] = "done" /\ outcome'[r] = "hit") => catalogCalls'[r] = 0]_vars

C1_Witness ==
  \E r \in Reqs : pc[r] = "done" /\ outcome[r] = "hit" /\ Len(result[r]) = 2
                  /\ catalogCalls[r] = 0

\* C2: a request that missed the cache and whose call of the External Catalog
\* Source failed, or was answered with no items, returns the empty sequence
\* and raises nothing to its caller.
C2_UpstreamFailureGivesEmpty ==
  \A r \in Reqs :
    (pc[r] = "done" /\ catalogCalls[r] > 0 /\ (~fetched[r].ok \/ fetched[r].items = <<>>))
      => (result[r] = <<>> /\ ~raised[r])

C2_Witness ==
  \E r, q \in Reqs :
    /\ pc[r] = "done" /\ outcome[r] = "upstreamError" /\ catalogCalls[r] = 1
    /\ pc[q] = "done" /\ outcome[q] = "stored" /\ fetched[q].ok /\ fetched[q].items = <<>>

\* C3: a request that missed the cache, got a list of well-formed items from
\* the External Catalog Source and whose cache write was accepted has called
\* the source exactly once and returned the image of that list in upstream
\* order; the step of its cache write put exactly that list under the key
\* with a time to live of 3600 seconds.
C3_MissFetchesOnceStoresAndReturns ==
  [][\A r \in Reqs :
       /\ (pc'[r] = "done" /\ fetched'[r].ok /\ WellFormed(fetched'[r].items)
             /\ outcome'[r] # "setexError")
            => /\ outcome'[r] = "stored"
               /\ catalogCalls'[r] = 1
               /\ SameList(result'[r], fetched'[r].items)
       /\ (pc[r] = "setex" /\ pc'[r] = "done" /\ outcome'[r] = "stored" /\ redisConfigured)
            => /\ cache'.has /\ cache'.ttl = 3600 /\ cache'.setAt = now
               /\ SameList(cache'.value.json, fetched[r].items)
               /\ cache'.value.json = result'[r]]_vars

C3_Witness ==
  \E r \in Reqs :
    /\ pc[r] = "done" /\ outcome[r] = "stored" /\ catalogCalls[r] = 1
    /\ fetched[r].items = <<RawV2, RawV1>>
    /\ redisConfigured /\ cache.has /\ cache.value.json = result[r]

\* C4: a read of the cache strictly before the entry's time to live has
\* elapsed finds the entry, a read at or after that instant does not; the
\* request that reads after the expiry goes on to call the External Catalog
\* Source, and the list it then stores replaces the expired entry entirely.
C4_EntryLivesExactlyTTL ==
  [][\A r \in Reqs :
       /\ (GetAnswered(r) /\ cache.has)
            => /\ (now < cache.setAt + 3600)
                    => (outcome'[r] = "hit" /\ result'[r] = cache.value.json)
               /\ (now >= cache.setAt + 3600)
                    => (pc'[r] = "fetch" /\ outcome'[r] = "none")
       /\ (pc[r] = "fetch" /\ pc'[r] # "fetch") => catalogCalls'[r] = catalogCalls[r] + 1
       /\ (expiredRead[r] /\ pc[r] = "setex" /\ outcome'[r] = "stored")
            => cache' = [has |-> TRUE, value |-> [json |-> result'[r]],
                         setAt |-> now, ttl |-> 3600]]_vars

C4_Witness ==
  \E r, q \in Reqs :
    /\ outcome[q] = "stored" /\ ~expiredRead[q] /\ Len(result[q]) = 2
    /\ outcome[r] = "stored" /\ expiredRead[r] /\ Len(result[r]) = 1
    /\ catalogCalls[r] = 1 /\ lastWriter = r
    /\ cache.has /\ cache.value.json = result[r] /\ cache.setAt >= TTL

\* The letters that differ only by case.
CasePairs == {<<"b", "B">>, <<"o", "O">>, <<"y", "Y">>, <<"m", "M">>}
SameLetter(a, b) == a = b \/ <<a, b>> \in CasePairs \/ <<b, a>> \in CasePairs

\* `q` occurs in `text` as a substring, letter case ignored.
ContainsIgnoringCase(text, q) ==
  \E k \in 0..(Len(text) - Len(q)) : \A j \in 1..Len(q) : SameLetter(text[k + j], q[j])

\* `out` is the items of `list` at the positions `idx`, in the order of `list`.
IsSelection(out, list, idx) ==
  /\ Len(out) = Cardinality(idx)
  /\ \E f \in [1..Len(out) -> idx] :
       /\ \A a, b \in 1..Len(out) : a < b => f[a] < f[b]
       /\ \A a \in 1..Len(out) : out[a] = list[f[a]]

\* C5: for every query string (an absent q is the empty string) and every
\* catalog the search got, the response lists exactly the catalog items
\* whose title or description contains the query, letter case ignored, in
\* catalog order; the empty query returns the whole catalog.
C5_SearchIsCaseInsensitiveSelection ==
  \A r \in Reqs :
    (pc[r] = "done" /\ req[r].kind = "search" /\ req[r].q.given # "other") =>
      LET q == IF req[r].q.given = "string" THEN req[r].q.text ELSE <<>>
          wanted == {i \in 1..Len(result[r]) :
                       \/ ContainsIgnoringCase(result[r][i].title, q)
                       \/ ContainsIgnoringCase(result[r][i].description, q)}
      IN  /\ response[r].status = 200
          /\ IsSelection(response[r].videos, result[r], wanted)
          /\ response[r].total = Cardinality(wanted)
          /\ (q = <<>> => response[r].videos = result[r])

C5_Witness ==
  \E r \in Reqs :
    /\ pc[r] = "done" /\ req[r].kind = "search"
    /\ req[r].q = [given |-> "string", text |-> <<"B", "O">>]
    /\ fetched[r].items = <<RawV3, RawV1>>
    /\ Len(result[r]) = 2
    /\ response[r].videos = <<result[r][2]>>

\* The request's call of the External Conversion Service has been issued.
Issued(r) == convCall[r].endpoint # "none"

\* C6: the endpoint of a conversion call follows from the format and quality
\* convert was given: audio with quality mp3 goes to the mp3 endpoint, audio
\* with any other quality to the audio-transcode endpoint, video to the
\* video-transcode endpoint, and every call goes to one of the three, for
\* the video the request names.
C6_EndpointFollowsFormatAndQuality ==
  \A r \in Reqs :
    Issued(r) =>
      LET format == ConvertFormat(req[r])
          quality == ConvertQuality(req[r])
          endpoint == convCall[r].endpoint
      IN  /\ (format = "audio" /\ quality = "mp3") => endpoint = "dlmp3"
          /\ (format = "audio" /\ quality # "mp3") => endpoint = "ytaudio"
          /\ format = "video" => endpoint = "ytv"
          /\ endpoint \in {"dlmp3", "ytaudio", "ytv"}
          /\ convCall[r].url.v = req[r].videoId

C6_Witness ==
  \E r \in Reqs :
    /\ req[r].kind = "download" /\ req[r].format = "audio" /\ req[r].quality = "320kbps"
    /\ pc[r] = "done" /\ convCall[r].endpoint = "ytaudio" /\ convCall[r].format = "320kbps"

\* C7: when the External Conversion Service answers with success and a result
\* that carries a download_url, convert returns a success whose downloadUrl
\* is that URL and whose format is the one it was asked for.
C7_SuccessCarriesUrlAndFormat ==
  \A r \in Reqs :
    (convReply[r].arrived /\ convReply[r].success /\ convReply[r].hasResult
       /\ convReply[r].result.download_url # Absent)
      => /\ downloadResult[r].success
         /\ downloadResult[r].error = Absent
         /\ downloadResult[r].downloadUrl = convReply[r].result.download_url
         /\ downloadResult[r].format = ConvertFormat(req[r])

C7_Witness ==
  \E r \in Reqs :
    /\ req[r].kind = "download" /\ req[r].format = "audio" /\ req[r].quality = "mp3"
    /\ convReply[r].success /\ convReply[r].result.download_url = "https://x/y.mp3"
    /\ downloadResult[r].success /\ downloadResult[r].downloadUrl = "https://x/y.mp3"
    /\ downloadResult[r].format = "audio"

\* The External Conversion Service's answer is a failure: the call was
\* rejected (timeout, non-2xx status), the answer does not report success,
\* or its payload is malformed (no result, or a result without download_url).
ConversionFailed(reply) ==
  \/ ~reply.arrived
  \/ ~reply.success
  \/ ~reply.hasResult
  \/ reply.result.download_url = Absent

\* C8: on every conversion failure convert returns a tagged failure that
\* carries the error message, and never a success.
C8_FailureGivesTaggedFailure ==
  \A r \in Reqs :
    (Issued(r) /\ pc[r] \in {"mix", "done"} /\ ConversionFailed(convReply[r]))
      => (~downloadResult[r].success /\ downloadResult[r].error # Absent)

\* The request got as far as calling convert: a stream request as soon as its
\* handler runs, a download request unless it was answered 404.
ReachedConvert(r) ==
  IF req[r].kind = "stream"
  THEN pc[r] # "start"
  ELSE pc[r] \in {"convert", "mix"} \/ (pc[r] = "done" /\ response[r].status # 404)

\* C9: the outbound conversion calls are as many as the requests that
\* reached convert: one each, whatever the answers, identical requests
\* included.
C9_OneConversionCallPerRequest ==
  /\ convCalls = Cardinality({r \in Reqs : ReachedConvert(r)})
  /\ \A r \in Reqs : Issued(r) <=> ReachedConvert(r)

C9_Witness ==
  /\ req[1] = req[2] /\ req[1].kind = "download"
  /\ \A r \in Reqs : pc[r] = "done"
  /\ ~downloadResult[1].success /\ response[1].status = 500
  /\ response[2].status = 200
  /\ convCalls = NumReq

\* C10: whatever the interleaving, the cache holds exactly the list the last
\* writer wrote, and every list a request returned is empty (a failed call)
\* or the complete image of the answer to one single call of the source.
C10_LastWriteWinsNoMerge ==
  /\ cache.has =>
       /\ lastWriter \in Reqs
       /\ outcome[lastWriter] = "stored"
       /\ cache.value.json = result[lastWriter]
       /\ SameList(cache.value.json, fetched[lastWriter].items)
  /\ \A r \in Reqs :
       pc[r] = "done" =>
         \/ result[r] = <<>>
         \/ \E w \in Reqs : fetched[w].ok /\ SameList(result[r], fetched[w].items)

C10_Witness ==
  /\ now = 0
  /\ \A r \in Reqs : pc[r] = "done" /\ outcome[r] = "stored" /\ catalogCalls[r] = 1
  /\ result[1] = MapItems(<<RawV1>>) /\ result[2] = MapItems(<<RawV2, RawV1>>)
  /\ lastWriter = 1
  /\ cache.has /\ cache.value.json = result[1]

\* The request's redis.get or redis.setex was rejected.
CacheFailed(r) == outcome[r] \in {"getError", "setexError"}

\* C11: a request whose cache read or cache write was rejected still asks
\* the External Catalog Source (once), and when the source answers with
\* readable items the request returns exactly their image and the handler
\* answers 200 with them.
C11_CacheFailureStillReturnsUpstreamItems ==
  \A r \in Reqs :
    (pc[r] = "done" /\ CacheFailed(r)) =>
      /\ catalogCalls[r] = 1
      /\ (fetched[r].ok /\ WellFormed(fetched[r].items)) =>
           /\ SameList(result[r], fetched[r].items)
           /\ response[r] = ListResponse(result[r])

\* The request went past redis.get on a miss and its redis.setex, if it got
\* that far, was accepted: the paths an empty, answering cache allows.
MissedAndDone(r) ==
  pc[r] = "done" /\ outcome[r] \in {"stored", "upstreamError", "mapError"}

\* What a request returns as a function of the source's answer alone.
ReturnsImageOfFetch(r) ==
  IF fetched[r].ok /\ WellFormed(fetched[r].items)
  THEN SameList(result[r], fetched[r].items)
  ELSE result[r] = <<>>

C13_UnreachableSourceReportsFailure ==
  \A r \in Reqs :
    (pc[r] = "done" /\ req[r].kind = "list" /\ outcome[r] = "upstreamError"
       /\ ~fetched[r].ok)
      => /\ response[r].status >= 400
         /\ ~response[r].success

\* fetchYouTubeChannelVideos returns to request r in this step.
CatalogReturns(r) ==
  pc[r] \in {"get", "fetch", "setex"} /\ pc'[r] \notin {"get", "fetch", "setex"}

\* The catalog the request was given does not hold the id it names.
AbsentFromCatalog(list, videoId) == \A i \in 1..Len(list) : list[i].videoId # videoId

\* The download requests for video v that were answered 200.
Downloaded(v) ==
  {r \in Reqs : req[r].kind = "download" /\ req[r].videoId = v
                /\ pc[r] = "done" /\ response[r].status = 200}

\* C14: a download request whose id is absent from the catalog it was given
\* is answered 404 in the very step the catalog returns, and that step
\* issues no call of the External Conversion Service and changes no download
\* counter; such a request never has a conversion call, and every counter
\* equals the number of 200 answers for its video.
C14_AbsentIdGives404WithoutSideEffects ==
  /\ [](\A r \in Reqs :
          /\ (req[r].kind = "download" /\ pc[r] = "done" /\ response[r].status = 404)
               => /\ AbsentFromCatalog(result[r], req[r].videoId)
                  /\ convCall[r] = NoCall
                  /\ ~convReply[r].arrived
          /\ downloadCount[req[r].videoId] = Cardinality(Downloaded(req[r].videoId)))
  /\ [][\A r \in Reqs :
          (req[r].kind = "download" /\ CatalogReturns(r)
             /\ AbsentFromCatalog(result'[r], req[r].videoId))
            => /\ pc'[r] = "done"
               /\ response'[r] = NotFoundResponse
               /\ response'[r].status = 404
               /\ convCalls' = convCalls
               /\ convCall' = convCall
               /\ downloadCount' = downloadCount]_vars

\* A request for a stranger was answered 404 out of a catalog of two, while
\* a request for v1 was answered 200 and counted.
C14_Witness ==
  /\ req[1].videoId = "zz" /\ req[1].kind = "download" /\ pc[1] = "done"
  /\ Len(result[1]) = 2 /\ response[1].status = 404 /\ convCall[1] = NoCall
  /\ req[2].videoId = "v1" /\ req[2].kind = "download" /\ pc[2] = "done"
  /\ response[2].status = 200
  /\ downloadCount = [v \in VideoIds |-> IF v = "v1" THEN 1 ELSE 0]
  /\ convCalls = 1

\* C15: a stream request without a Range header calls the External
\* Conversion Service exactly as convert(id, audio, 320kbps) does (same
\* endpoint, same parameters), and when that call succeeds it redirects the
\* client to the URL the call returned.
C15_StreamWithoutRangeIsConvertAudioHighest ==
  \A r \in Reqs :
    (req[r].kind = "stream" /\ ~req[r].range /\ Issued(r)) =>
      /\ convCall[r] = BuildApiUrl(req[r].videoId, "audio", "320kbps")
      /\ (pc[r] = "done" /\ downloadResult[r].success) =>
           /\ response[r].status = 302
           /\ response[r].location = downloadResult[r].downloadUrl

\* C16: of two stream requests that got the same answer from the External
\* Conversion Service, one with a Range header and one without, the one with
\* the header advertises range support and is otherwise answered as the
\* other: same status, same kind of body, same redirect target.
C16_RangeOnlyAddsHeaders ==
  \A a, b \in Reqs :
    (/\ req[a].kind = "stream" /\ req[b].kind = "stream"
     /\ ~req[a].range /\ req[b].range
     /\ pc[a] = "done" /\ pc[b] = "done"
     /\ convReply[a] = convReply[b])
      => /\ response[b].acceptRanges
         /\ response[b].status = response[a].status
         /\ response[b].type = response[a].type
         /\ response[a].status = 302 => response[b].location = response[a].location

\* C17: every answer of GET /api/stream/:id is a 302 redirect to the URL the
\* External Conversion Service returned, or an error status with a JSON body.
C17_StreamAnswersRedirectOrErrorJson ==
  \A r \in Reqs :
    (req[r].kind = "stream" /\ pc[r] = "done") =>
      \/ /\ response[r].status = 302
         /\ response[r].type = "redirect"
         /\ response[r].location # Absent
         /\ response[r].location = convReply[r].result.download_url
      \/ /\ response[r].status >= 400
         /\ response[r].type = "json"

\* The fixed menu's (format, quality) pairs: three video tiers, four audio.
MenuVideo == {<<"mp4", "720p">>, <<"mp4", "480p">>, <<"mp4", "360p">>}
MenuAudio == {<<"mp3", "320kbps">>, <<"mp3", "192kbps">>, <<"mp3", "128kbps">>, <<"mp3", "mp3">>}

\* The (format, quality) pairs of a list of options.
PairsOf(options) == {<<options[i].format, options[i].quality>> : i \in 1..Len(options)}

\* The server has answered request r.
Answered(r) == response[r] # NoResponse

\* C18: the options handler answers every id, the stranger included, with
\* 200 and the same menu of three video and four audio tiers; it never
\* answers with a failure and calls neither the cache nor an upstream
\* service; and whatever options a caller ends up with (the server's, or the
\* client's fallback when the answer did not arrive) have their format and
\* quality from that menu.
C18_OptionsAreTheFixedMenu ==
  /\ \A r \in Reqs :
       (req[r].kind = "options" /\ Answered(r)) =>
         /\ response[r].status = 200 /\ response[r].success
         /\ response[r].videoId = req[r].videoId
         /\ Len(response[r].options.video) = 3 /\ Len(response[r].options.audio) = 4
         /\ PairsOf(response[r].options.video) = MenuVideo
         /\ PairsOf(response[r].options.audio) = MenuAudio
         /\ \A o \in Reqs : (req[o].kind = "options" /\ Answered(o))
                              => response[o].options = response[r].options
  /\ \A r \in Reqs :
       req[r].kind = "options" =>
         /\ catalogCalls[r] = 0 /\ outcome[r] = "none" /\ convCall[r] = NoCall
         /\ pc[r] = "done" =>
              /\ PairsOf(clientOptions[r].video) \subseteq MenuVideo
              /\ PairsOf(clientOptions[r].audio) \subseteq MenuAudio
              /\ clientOptions[r] # NoOptions
  /\ (\A r \in Reqs : req[r].kind = "options") => (convCalls = 0 /\ cache = NoEntry)

\* A caller asking for the stranger got the server's menu, one asking for v1
\* got the fallback because the answer was lost.
C18_Witness ==
  /\ req[1].videoId = "zz" /\ req[1].kind = "options" /\ pc[1] = "done"
  /\ response[1].status = 200 /\ Len(clientOptions[1].audio) = 4
  /\ req[2].videoId = "v1" /\ req[2].kind = "options" /\ pc[2] = "done"
  /\ response[2].status = 200 /\ Len(clientOptions[2].audio) = 2

\* The answer comes from a catch block or from the global error handler:
\* an exception nobody expected.
InternalFault(resp) ==
  /\ resp.status = 500
  /\ resp.error \in {"Download failed", "Upload failed", "Internal server error",
                     "Failed to fetch channel videos"}

\* C19: an answer to an unexpected exception is a 500 that carries the
\* error's message in development and no message otherwise.
C19_InternalFaultMessageGatedByEnv ==
  \A r \in Reqs :
    (pc[r] = "done" /\ InternalFault(response[r])) =>
      (response[r].message # Absent <=> nodeEnv = "development")

\* The upload fails validation: it has no file, or its file is neither one
\* of the allowed audio types nor one of the allowed video types.
FailsValidation(file) ==
  \/ ~file.present
  \/ file.mimetype.type \notin {"audio", "video"}
  \/ file.mimetype.type = "audio"
       /\ file.mimetype.subtype \notin {"mp3", "wav", "mpeg", "ogg", "flac", "aac", "m4a"}
  \/ file.mimetype.type = "video" /\ file.mimetype.subtype \notin {"mp4", "webm", "ogg"}

\* C20: an upload that fails validation is answered 400, and when every
\* upload in flight fails validation no mix is ever stored.
C20_InvalidUploadGives400AndNoMix ==
  /\ \A r \in Reqs :
       (req[r].kind = "upload" /\ pc[r] = "done" /\ FailsValidation(req[r].file))
         => response[r].status = 400
  /\ (\A r \in Reqs : req[r].kind = "upload" /\ FailsValidation(req[r].file))
       => mixes = <<>>

\* C21: whenever the server handles a progress message, it emits it to
\* exactly the connected clients that joined the message's room, the sender
\* left out: no client outside the room, none of another room, never the
\* sender.
C21_ProgressGoesToOthersInRoom ==
  [][(lastEmit' # lastEmit \/ recipients' # recipients) =>
       /\ lastEmit'.from \in connected
       /\ \A c \in Clients :
            c \in recipients' <=>
              /\ c # lastEmit'.from
              /\ c \in connected
              /\ <<"player-", lastEmit'.room>> \in joined[c]]_vars

\* Clients 1 and 2 are in the global room, client 3 in the other one;
\* client 1's message for the global room reached client 2 alone.
C21_Witness ==
  /\ connected = Clients
  /\ <<"player-", "global">> \in joined[1] /\ <<"player-", "global">> \in joined[2]
  /\ joined[3] = {<<"player-", "party">>}
  /\ lastEmit.from = 1 /\ lastEmit.room = "global"
  /\ recipients = {2}

\* The waveform handler answers request r with success in this step.
WaveformAnswered(r) ==
  /\ req[r].kind = "waveform"
  /\ pc[r] = "start" /\ pc'[r] = "done"
  /\ response'[r].status = 200

\* C22: when the waveform handler answers and a mix with a waveform is
\* stored under the id, the answer carries exactly the stored sequence;
\* when none is stored, it carries exactly 100 integers, each at least 20
\* and below 100.
C22_WaveformStoredOrHundredInRange ==
  [][\A r \in Reqs :
       WaveformAnswered(r) =>
         LET wave == response'[r].waveform
             held == {i \in 1..Len(mixes) : mixes[i].videoId = req[r].videoId}
         IN  /\ held # {} => \E i \in held : wave = mixes[i].waveform.json
             /\ held = {} =>
                  /\ Len(wave) = 100
                  /\ \A i \in 1..100 : wave[i] \in Int /\ 20 <= wave[i] /\ wave[i] < 100]_vars

\* The uploaded mix's stored waveform (a hundred times 50) was returned as
\* stored.
C22_Witness ==
  /\ Len(mixes) = 1 /\ mixes[1].videoId = "upload_1"
  /\ \E r \in Reqs :
       /\ req[r].kind = "waveform" /\ req[r].videoId = "upload_1"
       /\ pc[r] = "done" /\ response[r].status = 200
       /\ response[r].waveform = mixes[1].waveform.json
       /\ response[r].waveform[1] = 50 /\ Len(response[r].waveform) = 100

\* C23: a PUT /api/profile/:id is answered 200 with the user, whose stored
\* theme is then the one the request carried; and a GET that is answered
\* after the PUTs for its user, all carrying the same theme, returns that
\* theme.
C23_ProfilePutUpdatesPreferences ==
  /\ [](\A r \in Reqs :
          (req[r].kind = "profile" /\ req[r].method = "PUT" /\ pc[r] = "done")
            => /\ response[r].status = 200
               /\ response[r].success
               /\ response[r].user.id = req[r].userId
               /\ users[req[r].userId].theme = req[r].preferences.theme)
  /\ [][\A g, p \in Reqs :
          (/\ req[g].kind = "profile" /\ req[g].method = "GET"
           /\ req[p].kind = "profile" /\ req[p].method = "PUT"
           /\ req[p].userId = req[g].userId
           /\ pc[p] = "done" /\ pc[g] = "start" /\ pc'[g] = "done"
           /\ \A o \in Reqs :
                (req[o].kind = "profile" /\ req[o].method = "PUT" /\ pc[o] = "done"
                   /\ req[o].userId = req[p].userId)
                  => req[o].preferences.theme = req[p].preferences.theme
           /\ response'[g].status = 200)
            => response'[g].user.preferences.theme = req[p].preferences.theme]_vars

\* Some step of request r's handler can be taken.
CanStep(r) ==
  \/ ENABLED CacheGet(r)
  \/ ENABLED CatalogFetch(r, ConvCatalogResponses)
  \/ ENABLED CacheSetex(r)
  \/ ENABLED StreamStart(r)
  \/ ENABLED ConvertReply(r)
  \/ ENABLED MixUpdate(r)

\* C24: a download or stream request has been sent a response exactly when
\* its handler has finished, a handler that has not finished can always go
\* on (no path ends without a response), no exception has escaped it, and a
\* response once sent is never followed by another.
C24_ExactlyOneResponsePerRequest ==
  /\ [](\A r \in Reqs :
          /\ pc[r] = "done" <=> response[r] # NoResponse
          /\ pc[r] # "done" => CanStep(r)
          /\ ~raised[r]
          /\ pc[r] = "done" =>
               /\ response[r].status \in {200, 302, 400, 404, 500}
               /\ response[r].type \in {"json", "redirect", "text"})
  /\ [][\A r \in Reqs : response[r] # NoResponse => response'[r] = response[r]]_vars

\* An early return (404), and a caught exception (the database update was
\* rejected): each request has its one response.
C24_Witness ==
  /\ \A r \in Reqs : pc[r] = "done" /\ response[r] # NoResponse
  /\ req[1].kind = "download" /\ response[1].status = 404
  /\ req[2].kind = "download" /\ response[2].status = 500
  /\ response[2].error = "Download failed"

\* Request r's call of the External Catalog Source fails in this step.
FetchFails(r) == pc[r] = "fetch" /\ pc'[r] # "fetch" /\ ~fetched'[r].ok

\* C25: the step in which a request's call of the source fails writes
\* nothing to the cache and ends the request with the empty list; the cache
\* never holds the outcome of a failed call; and a request whose redis.get
\* is answered while nothing live is cached goes on to call the source.
C25_FailedFetchLeavesCacheUnchanged ==
  /\ [](/\ cache.has => (lastWriter \in Reqs /\ fetched[lastWriter].ok)
        /\ \A r \in Reqs : (pc[r] = "done" /\ ~fetched[r].ok) => lastWriter # r)
  /\ [][\A r \in Reqs :
          /\ FetchFails(r) =>
               /\ cache' = cache
               /\ lastWriter' = lastWriter
               /\ pc'[r] = "done" /\ result'[r] = <<>>
          /\ (GetAnswered(r) /\ ~(cache.has /\ now < cache.setAt + TTL))
               => (pc'[r] = "fetch" /\ catalogCalls'[r] = 0)]_vars

\* The first request's call failed and left nothing behind; the second one
\* called the source itself and its list is what the cache holds.
C25_Witness ==
  /\ redisConfigured /\ now = 0
  /\ pc[1] = "done" /\ outcome[1] = "upstreamError" /\ ~fetched[1].ok
  /\ pc[2] = "done" /\ outcome[2] = "stored" /\ catalogCalls[2] = 1
  /\ Len(result[2]) = 2
  /\ lastWriter = 2 /\ cache.value.json = result[2]

\* Request r's redis.setex of an empty list is accepted in this step.
StoresEmpty(r) ==
  pc[r] = "setex" /\ outcome'[r] = "stored" /\ fetched[r].ok /\ fetched[r].items = <<>>

\* C26: an answer of the source with zero items is written to a configured
\* cache like any list, with the full time to live; and while that entry is
\* live a request whose redis.get is answered returns the empty list on a
\* hit, is answered 200 with it, and makes no call of the source.
C26_EmptyListIsCached ==
  [][\A r \in Reqs :
       /\ (StoresEmpty(r) /\ redisConfigured) =>
            /\ cache'.has /\ cache'.value.json = <<>>
            /\ cache'.setAt = now /\ cache'.ttl = TTL
       /\ (GetAnswered(r) /\ cache.has /\ cache.value.json = <<>>
             /\ now < cache.setAt + TTL) =>
            /\ pc'[r] = "done" /\ outcome'[r] = "hit"
            /\ result'[r] = <<>>
            /\ response'[r] = ListResponse(<<>>)
            /\ catalogCalls' = catalogCalls /\ catalogCalls'[r] = 0]_vars

\* The first request cached the empty answer at time 0; one second before
\* the entry expires the second request was served it without a call.
C26_Witness ==
  /\ now = TTL - 1
  /\ cache.has /\ cache.value.json = <<>> /\ cache.setAt = 0
  /\ outcome[1] = "stored" /\ fetched[1].ok /\ fetched[1].items = <<>>
  /\ pc[2] = "done" /\ outcome[2] = "hit" /\ result[2] = <<>>
  /\ catalogCalls[2] = 0 /\ response[2].total = 0

\* The download requests for video v that were answered with success.
Succeeded(v) ==
  {r \in Reqs : /\ req[r].kind = "download" /\ req[r].videoId = v
                /\ response[r].status = 200 /\ response[r].success}

\* Request r is answered 404 or 500 in this step.
AnsweredWithFailure(r) ==
  pc[r] # "done" /\ pc'[r] = "done" /\ response'[r].status \in {404, 500}

\* C27: under every interleaving, the stored download count of each video
\* is the number of download requests for it that were answered with
\* success, and a step that answers a request 404 or 500 changes no count.
C27_DownloadCountCountsSuccesses ==
  /\ [](\A v \in VideoIds : downloadCount[v] = Cardinality(Succeeded(v)))
  /\ [][\A r \in Reqs :
          (req[r].kind = "download" /\ AnsweredWithFailure(r))
            => downloadCount' = downloadCount]_vars

\* Two downloads of the same video, interleaved: both answered with
\* success, both counted.
C27_Witness ==
  /\ req[1].kind = "download" /\ req[1].videoId = "v1"
  /\ req[2].kind = "download" /\ req[2].videoId = "v1"
  /\ response[1].status = 200 /\ response[2].status = 200
  /\ downloadCount["v1"] = 2

\* C28: a stream request never goes through fetchYouTubeChannelVideos (no
\* cache read, no call of the source, no catalog), has its conversion call
\* issued as soon as its handler has run, and is never answered 404,
\* whatever its id; a download request whose id is absent from the catalog
\* it was given is answered 404 and has no conversion call.  When only
\* stream requests are in flight the cache stays untouched and the
\* conversion calls are as many as the handlers that have run.
C28_StreamSkipsCatalogDownloadDoesNot ==
  /\ \A r \in Reqs :
       req[r].kind = "stream" =>
         /\ pc[r] \in {"start", "convert", "done"}
         /\ outcome[r] = "none" /\ catalogCalls[r] = 0 /\ fetched[r] = NoFetch
         /\ result[r] = <<>> /\ lastWriter # r
         /\ pc[r] # "start" => convCall[r].endpoint # "none"
         /\ pc[r] = "done" => (response[r].status \in {302, 400, 500} /\ convReply[r] # NoReply)
  /\ \A r \in Reqs :
       (req[r].kind = "download" /\ pc[r] = "done"
          /\ \A i \in 1..Len(result[r]) : result[r][i].videoId # req[r].videoId)
         => (response[r].status = 404 /\ convCall[r] = NoCall)
  /\ (\A r \in Reqs : req[r].kind = "stream")
       => /\ cache = NoEntry
          /\ convCalls = Cardinality({r \in Reqs : pc[r] # "start"})

\* The same stranger id: the download was answered 404 out of a catalog of
\* two without a conversion call, the stream was redirected after its one
\* call.
C28_Witness ==
  /\ req[1].kind = "download" /\ req[1].videoId = "zz" /\ pc[1] = "done"
  /\ Len(result[1]) = 2 /\ response[1].status = 404 /\ convCall[1] = NoCall
  /\ req[2].kind = "stream" /\ req[2].videoId = "zz" /\ pc[2] = "done"
  /\ response[2].status = 302 /\ response[2].location = "https://x/y.mp3"
  /\ convCalls = 1

\* Every callback has run: no task of the element waits and no play
\* promise is pending.
AllCallbacksRun == taskQueue = <<>> /\ pendingPlay = 0

\* The audio element is playing: not paused and not at its end.
ElementPlaying == ~paused /\ ~ended

\* C29: once every callback has run, player.isPlaying is true exactly when
\* the audio element is playing, after any interleaving of play(), pause(),
\* togglePlay() and the 'ended' event.
C29_FlagAgreesWithElement ==
  AllCallbacksRun => (isPlaying <=> ElementPlaying)

====
